---- MODULE Spec2Model ----
(***************************************************************************)
(* State core of the DDPEC parametric equalizer: the module-level store of *)
(* fn.ts (eqState, globalGainState, device), the visualizer state of       *)
(* peq.ts (localBands, selectedIndex, draggingIndex), the biquad           *)
(* derivation of peq.ts and the profile codec of importExport.ts.          *)
(*                                                                         *)
(* Numbers.  A JavaScript number is modelled by a record [t, v]: t = "num" *)
(* with v the value in thousandths (0.75 is 750, 34 Hz is 34000), t =      *)
(* "NaN" for NaN, and t = "null" for the JSON null that JSON.stringify     *)
(* writes for NaN.  Array positions are 0-based in the code and 1-based in *)
(* the sequences here: eqState[i] of the code is eqState[i + 1].           *)
(***************************************************************************)
EXTENDS Integers, Sequences, FiniteSets, TLC

\* Length of the default-frequency table (DEFAULT_FREQS of constants.ts).
NumBands == 2

\* Number of user-triggered handlers in one behaviour.
MaxOps == 3

\* Longest text profile (in lines) fed to the text parser.
MaxLines == 3

----------------------------------------------------------------------------
(* JavaScript values *)

Num(n) == [t |-> "num", v |-> n]

NaN == [t |-> "NaN", v |-> 0]

Null == [t |-> "null", v |-> 0]

\* ToNumber on a stored field: null coerces to 0, NaN stays NaN.
ToNumber(x) == IF x.t = "null" THEN Num(0) ELSE x

\* JavaScript truthiness of a number-or-null value (0, NaN and null are falsy).
Truthy(x) == x.t = "num" /\ x.v # 0

\* A raw value handed to updateState/handleUpdate: a string (input.value), a
\* number (drag position, frequency slider) or a boolean (checkbox.checked).
RawStr(s) == [t |-> "str", s |-> s, v |-> 0, b |-> FALSE]

RawNum(n) == [t |-> "num", s |-> "", v |-> n, b |-> FALSE]

RawBool(b) == [t |-> "bool", s |-> "", v |-> 0, b |-> b]

\* Decimal literals that occur in inputs, with their value in thousandths.
DecimalLiterals ==
    { <<"0", 0>>, <<"1", 1000>>, <<"34", 34000>>, <<"0.800", 800>>,
      <<"-2.6", -2600>>, <<"-8.0", -8000>>, <<"3", 3000>> }

IsDecimal(s) == \E p \in DecimalLiterals : p[1] = s

DecimalValue(s) == (CHOOSE p \in DecimalLiterals : p[1] = s)[2]

\* Strings that begin with a decimal literal followed by other characters:
\* parseFloat reads the prefix, Number rejects the whole string.
PrefixLiterals == { <<"12abc", 12000>> }

HasDecimalPrefix(s) == \E p \in PrefixLiterals : p[1] = s

PrefixValue(s) == (CHOOSE p \in PrefixLiterals : p[1] = s)[2]

\* parseFloat(value): the longest decimal prefix of String(value), else NaN.
parseFloat(raw) ==
    CASE raw.t = "num" -> Num(raw.v)
      [] raw.t = "bool" -> NaN
      [] raw.t = "str" /\ IsDecimal(raw.s) -> Num(DecimalValue(raw.s))
      [] raw.t = "str" /\ HasDecimalPrefix(raw.s) -> Num(PrefixValue(raw.s))
      [] OTHER -> NaN

\* Number(value): the whole string must be a literal; "" is 0; true is 1.
Number(raw) ==
    CASE raw.t = "num" -> Num(raw.v)
      [] raw.t = "bool" -> Num(IF raw.b THEN 1000 ELSE 0)
      [] raw.t = "str" /\ IsDecimal(raw.s) -> Num(DecimalValue(raw.s))
      [] raw.t = "str" /\ raw.s = "" -> Num(0)
      [] OTHER -> NaN

\* Boolean(value)
Boolean(raw) ==
    CASE raw.t = "bool" -> raw.b
      [] raw.t = "num" -> raw.v # 0
      [] OTHER -> raw.s # ""

\* String(value); numbers are never passed for the "type" key by the UI.
String(raw) ==
    CASE raw.t = "str" -> raw.s
      [] raw.t = "bool" -> (IF raw.b THEN "true" ELSE "false")
      [] OTHER -> ToString(raw.v)

----------------------------------------------------------------------------
(* Bands and defaults *)

\* DEFAULT_FREQS[i] in thousandths of a hertz (octave-spaced table).
DefaultFreq(i) == 32000 * (2 ^ (i - 1))

DEFAULT_FREQS == [i \in 1..NumBands |-> DefaultFreq(i)]

defaultEqState ==
    [i \in 1..Len(DEFAULT_FREQS) |->
        [index |-> i - 1, freq |-> Num(DEFAULT_FREQS[i]), gain |-> Num(0),
         q |-> Num(750), type |-> "PK", enabled |-> TRUE]]

\* eqState[index] exists (0-based index).
InRange(bands, index) == index >= 0 /\ index < Len(bands)

----------------------------------------------------------------------------
(* Biquad derivation (peq.ts).  Coefficients are exact where the code's     *)
(* arithmetic is exact (the identity filter; finite / Infinity = 0) and are *)
(* otherwise classified: Finite for a finite real the RBJ formulas give,    *)
(* NaN for Not-a-Number.                                                    *)

One == Num(1000)

Zero == Num(0)

Finite == [t |-> "finite", v |-> 0]

Identity == [b0 |-> One, b1 |-> Zero, b2 |-> Zero, a1 |-> Zero, a2 |-> Zero]

\* The case labels of the switch in calculateBiquad.
RecognizedTypes == {"PK", "LSQ", "HSQ"}

\* Math.sin(w0), w0 = 2 * PI * band.freq / sampleRate: exactly 0 only at freq 0.
SinW0(band) ==
    LET f == ToNumber(band.freq)
    IN  IF f.t = "NaN" THEN "NaN" ELSE IF f.v = 0 THEN "zero" ELSE "nonzero"

\* alpha = Math.sin(w0) / (2 * band.q): x/0 is +-Infinity, 0/0 is NaN.
Alpha(band) ==
    LET s == SinW0(band)
        q == ToNumber(band.q)
    IN  CASE s = "NaN" \/ q.t = "NaN" -> "NaN"
          [] q.v = 0 /\ s = "zero" -> "NaN"
          [] q.v = 0 -> "Infinity"
          [] OTHER -> "finite"

\* A = Math.pow(10, band.gain / 40)
ShelfA(band) == IF ToNumber(band.gain).t = "NaN" THEN "NaN" ELSE "finite"

\* b/a0 for the PK, LSQ and HSQ cases: with alpha infinite, b0, b2, a0 and a2
\* are infinite (Infinity/Infinity = NaN) and b1, a1 are finite (x/Infinity = 0).
RbjCoefficients(band) ==
    CASE Alpha(band) = "NaN" \/ ShelfA(band) = "NaN" ->
            [b0 |-> NaN, b1 |-> NaN, b2 |-> NaN, a1 |-> NaN, a2 |-> NaN]
      [] Alpha(band) = "Infinity" ->
            [b0 |-> NaN, b1 |-> Zero, b2 |-> NaN, a1 |-> Zero, a2 |-> NaN]
      [] OTHER ->
            [b0 |-> Finite, b1 |-> Finite, b2 |-> Finite, a1 |-> Finite,
             a2 |-> Finite]

\* calculateBiquad without the early return for a disabled band.
calculateBiquad_noBypass(band) ==
    IF band.type \in RecognizedTypes THEN RbjCoefficients(band) ELSE Identity

calculateBiquad(band) ==
    IF ~band.enabled THEN Identity
    ELSE IF band.type \in RecognizedTypes THEN RbjCoefficients(band)
    ELSE Identity

----------------------------------------------------------------------------
(* The visualizer (peq.ts) and the store's edit path (fn.ts), as functions  *)
(* on a record w of the mutable state: eq (eqState), gg (globalGainState),  *)
(* local (localBands), sel (selectedIndex, <<>> for null), drag             *)
(* (draggingIndex), drawn and coeffs (the bands and activeCoeffs of the     *)
(* last drawCurve), err (the exception in flight, "none" when there is      *)
(* none), api and direct (the assignments to a field of a band of the       *)
(* store made so far by the running handler: inside setEQ, and through a    *)
(* reference held outside fn.ts).  An operator applied to a record whose    *)
(* err is set does nothing: the exception is propagating.                   *)

\* band.gain.toString() / band.q.toString() on the selected band throw when
\* the field is null.
updateControlsThrows(w) ==
    /\ w.sel # <<>>
    /\ InRange(w.local, w.sel[1])
    /\ \/ w.local[w.sel[1] + 1].gain.t = "null"
       \/ w.local[w.sel[1] + 1].q.t = "null"

drawCurve(w) ==
    [w EXCEPT !.drawn = w.local,
              !.coeffs = [i \in DOMAIN w.local |-> calculateBiquad(w.local[i])]]

\* updateList(); updateControls(); draw();
refreshView(w) ==
    IF w.err # "none" THEN w
    ELSE IF updateControlsThrows(w) THEN [w EXCEPT !.err = "TypeError"]
    ELSE drawCurve(w)

renderPEQ(w, bands) ==
    IF w.err # "none" THEN w ELSE refreshView([w EXCEPT !.local = bands])

renderUI(w, bands) == renderPEQ(w, bands)

selectBand(w, index) == refreshView([w EXCEPT !.sel = <<index>>])

\* The assignment made to field key of every band instead of band index.
setEQ_allBands(w, index, key, raw) ==
    IF ~InRange(w.eq, index) THEN [w EXCEPT !.err = "TypeError"]
    ELSE [w EXCEPT !.api = @ + 1,
                   !.eq = [i \in DOMAIN w.eq |->
            CASE key = "freq" -> [w.eq[i] EXCEPT !.freq = parseFloat(raw)]
              [] key = "gain" -> [w.eq[i] EXCEPT !.gain = parseFloat(raw)]
              [] key = "q" -> [w.eq[i] EXCEPT !.q = parseFloat(raw)]
              [] key = "enabled" -> [w.eq[i] EXCEPT !.enabled = Boolean(raw)]
              [] key = "type" -> [w.eq[i] EXCEPT !.type = raw.s]
              [] OTHER -> w.eq[i]]]

\* eqState[index][key] = value, the value already coerced by updateState.
\* eqState[index] is undefined for an index outside the array, and the
\* assignment to a property of undefined throws a TypeError.
setEQ(w, index, key, raw) ==
    IF ~InRange(w.eq, index) THEN [w EXCEPT !.err = "TypeError"]
    ELSE [w EXCEPT !.api = @ + 1,
                   !.eq[index + 1] =
            CASE key = "freq" -> [@ EXCEPT !.freq = parseFloat(raw)]
              [] key = "gain" -> [@ EXCEPT !.gain = parseFloat(raw)]
              [] key = "q" -> [@ EXCEPT !.q = parseFloat(raw)]
              [] key = "enabled" -> [@ EXCEPT !.enabled = Boolean(raw)]
              [] key = "type" -> [@ EXCEPT !.type = raw.s]
              [] OTHER -> @]

updateState(w, index, key, raw) ==
    LET w1 == setEQ(w, index, key, raw)
    IN  renderUI(w1, w1.eq)

\* localBands is the array object of eqState (renderUI passes the reference),
\* so the write to localBands[index] is a write to eqState[index] as well.
handleUpdate(w, index, key, raw) ==
    LET w1 == updateState(w, index, key, raw)
        band == w1.local[index + 1]
        nb == CASE key = "freq" -> [band EXCEPT !.freq = Number(raw)]
                [] key = "gain" -> [band EXCEPT !.gain = Number(raw)]
                [] key = "q" -> [band EXCEPT !.q = Number(raw)]
                [] key = "type" -> [band EXCEPT !.type = String(raw)]
                [] key = "enabled" -> [band EXCEPT !.enabled = Boolean(raw)]
                [] OTHER -> band
    IN  IF w1.err # "none" \/ ~InRange(w1.local, index) THEN w1
        ELSE refreshView([w1 EXCEPT !.local[index + 1] = nb,
                                    !.eq[index + 1] = nb,
                                    !.direct = @ + 1])

----------------------------------------------------------------------------
(* Profile codec (importExport.ts).                                         *)
(*                                                                          *)
(* A file is a record: brace (the trimmed text starts with "{"), syntaxOk   *)
(* (JSON.parse accepts it), hasBands / bands and hasGlobalGain / globalGain *)
(* (the members of the parsed object) and lines (the text split at line     *)
(* ends).  A line is a record of its trimmed pieces: kw is "" for a blank   *)
(* line, the keyword before the colon for a Preamp line ("Preamp", any      *)
(* letter case) with val the text after it, "Filter" (any case) for a       *)
(* Filter line with its index, state, tag, Fc, Gain and Q texts, and any    *)
(* other text for a line of neither shape.                                  *)

Line(kw, val, idx, state, tag, fc, gain, q) ==
    [kw |-> kw, val |-> val, idx |-> idx, state |-> state, tag |-> tag,
     fc |-> fc, gain |-> gain, q |-> q]

BlankLine == Line("", "", "", "", "", "", "", "")

OtherLine == Line("# comment", "", "", "", "", "", "", "")

PreampLine(kw, val) == Line(kw, val, "", "", "", "", "", "")

FilterLine(kw, n, state, tag, fc, gain, q) ==
    Line(kw, "", ToString(n), state, tag, fc, gain, q)

toLowerCase(s) ==
    CASE s \in {"Preamp", "PREAMP", "preamp"} -> "preamp"
      [] s \in {"Filter", "FILTER", "filter"} -> "filter"
      [] OTHER -> s

toUpperCase(s) ==
    CASE s \in {"ON", "On", "on"} -> "ON"
      [] s \in {"OFF", "Off", "off"} -> "OFF"
      [] OTHER -> s

\* \d+(?:\.\d+)? : a decimal literal without sign.
IsUnsignedDecimal(s) == \E p \in DecimalLiterals : p[1] = s /\ p[2] >= 0

\* [A-Z]+ under the i flag
IsLetters(s) == s \in {"PK", "pk", "LS", "HS", "LSQ", "HSQ"}

\* parseInt(text, 10) of a \d+ capture
parseInt(s) == CHOOSE n \in 0..(NumBands + 2) : ToString(n) = s

\* /^Preamp:\s*(-?\d+(\.\d+)?)\s*(?:dB)?/i
preampRegex(line) == toLowerCase(line.kw) = "preamp" /\ IsDecimal(line.val)

\* /^Filter\s+(\d+):\s+(ON|OFF)\s+([A-Z]+)\s+Fc\s+(\d+(?:\.\d+)?)\s*(?:Hz)?
\*   \s+Gain\s+(-?\d+(?:\.\d+)?)\s*(?:dB)?\s+Q\s+(\d+(?:\.\d+)?)/i
filterRegex(line) ==
    /\ toLowerCase(line.kw) = "filter"
    /\ \E n \in 0..(NumBands + 2) : ToString(n) = line.idx
    /\ toUpperCase(line.state) \in {"ON", "OFF"}
    /\ IsLetters(line.tag)
    /\ IsUnsignedDecimal(line.fc)
    /\ IsDecimal(line.gain)
    /\ IsUnsignedDecimal(line.q)

\* The loop body with the 1-based index of the line used as the position.
parseTextLine_noOffset(line, acc) ==
    IF line.kw = "" THEN acc
    ELSE IF preampRegex(line)
    THEN [acc EXCEPT !.globalGain = parseFloat(RawStr(line.val))]
    ELSE IF filterRegex(line)
    THEN LET index == parseInt(line.idx)
         IN  IF index >= 0 /\ index < Len(acc.bands)
             THEN [acc EXCEPT !.bands[index + 1] =
                     [@ EXCEPT !.freq = parseFloat(RawStr(line.fc)),
                               !.gain = parseFloat(RawStr(line.gain)),
                               !.q = parseFloat(RawStr(line.q)),
                               !.type = line.tag,
                               !.enabled = (toUpperCase(line.state) = "ON")]]
             ELSE acc
    ELSE acc

\* The loop body with the first Preamp line kept: a later one is skipped
\* once a gain has been read.
parseTextLine_firstPreamp(line, acc) ==
    IF line.kw = "" THEN acc
    ELSE IF preampRegex(line)
    THEN IF acc.globalGain = Num(0)
         THEN [acc EXCEPT !.globalGain = parseFloat(RawStr(line.val))]
         ELSE acc
    ELSE IF filterRegex(line)
    THEN LET index == parseInt(line.idx) - 1
         IN  IF index >= 0 /\ index < Len(acc.bands)
             THEN [acc EXCEPT !.bands[index + 1] =
                     [@ EXCEPT !.freq = parseFloat(RawStr(line.fc)),
                               !.gain = parseFloat(RawStr(line.gain)),
                               !.q = parseFloat(RawStr(line.q)),
                               !.type = line.tag,
                               !.enabled = (toUpperCase(line.state) = "ON")]]
             ELSE acc
    ELSE acc

\* The loop body with an index beyond the sequence clamped to its last band.
parseTextLine_clampIndex(line, acc) ==
    IF line.kw = "" THEN acc
    ELSE IF preampRegex(line)
    THEN [acc EXCEPT !.globalGain = parseFloat(RawStr(line.val))]
    ELSE IF filterRegex(line)
    THEN LET parsed == parseInt(line.idx) - 1
             index == IF parsed < Len(acc.bands) THEN parsed
                      ELSE Len(acc.bands) - 1
         IN  IF index >= 0
             THEN [acc EXCEPT !.bands[index + 1] =
                     [@ EXCEPT !.freq = parseFloat(RawStr(line.fc)),
                               !.gain = parseFloat(RawStr(line.gain)),
                               !.q = parseFloat(RawStr(line.q)),
                               !.type = line.tag,
                               !.enabled = (toUpperCase(line.state) = "ON")]]
             ELSE acc
    ELSE acc

\* The body of the for loop of parseTextProfile, for one line.
parseTextLine(line, acc) ==
    IF line.kw = "" THEN acc
    ELSE IF preampRegex(line)
    THEN [acc EXCEPT !.globalGain = parseFloat(RawStr(line.val))]
    ELSE IF filterRegex(line)
    THEN LET index == parseInt(line.idx) - 1
         IN  IF index >= 0 /\ index < Len(acc.bands)
             THEN [acc EXCEPT !.bands[index + 1] =
                     [@ EXCEPT !.freq = parseFloat(RawStr(line.fc)),
                               !.gain = parseFloat(RawStr(line.gain)),
                               !.q = parseFloat(RawStr(line.q)),
                               !.type = line.tag,
                               !.enabled = (toUpperCase(line.state) = "ON")]]
             ELSE acc
    ELSE acc

RECURSIVE parseTextLines(_, _)
parseTextLines(lines, acc) ==
    IF lines = <<>> THEN acc
    ELSE parseTextLines(Tail(lines), parseTextLine(Head(lines), acc))

parseTextProfile(lines) ==
    parseTextLines(lines,
        [err |-> "none", globalGain |-> Num(0), bands |-> defaultEqState])

\* data.globalGain || 0
globalGainOrZero(doc) ==
    IF doc.hasGlobalGain /\ Truthy(doc.globalGain) THEN doc.globalGain
    ELSE Num(0)

\* parseJsonProfile without the check of data.bands.
parseJsonProfile_noBandsCheck(doc) ==
    IF ~doc.syntaxOk
    THEN [err |-> "SyntaxError", globalGain |-> Num(0), bands |-> <<>>]
    ELSE [err |-> "none", globalGain |-> globalGainOrZero(doc),
          bands |-> doc.bands]

parseJsonProfile(doc) ==
    IF ~doc.syntaxOk
    THEN [err |-> "SyntaxError", globalGain |-> Num(0), bands |-> <<>>]
    ELSE IF ~doc.hasBands
    THEN [err |-> "Invalid JSON profile: missing 'bands' property",
          globalGain |-> Num(0), bands |-> <<>>]
    ELSE [err |-> "none", globalGain |-> globalGainOrZero(doc),
          bands |-> doc.bands]

\* JSON.stringify of a number: NaN is written as null.
stringifyNumber(x) == IF x.t = "NaN" THEN Null ELSE x

stringifyBand(band) ==
    [band EXCEPT !.freq = stringifyNumber(band.freq),
                 !.gain = stringifyNumber(band.gain),
                 !.q = stringifyNumber(band.q)]

JsonFile(hasBands, bands, hasGlobalGain, globalGain) ==
    [brace |-> TRUE, syntaxOk |-> TRUE, hasBands |-> hasBands, bands |-> bands,
     hasGlobalGain |-> hasGlobalGain, globalGain |-> globalGain,
     lines |-> <<>>]

TextFile(lines) ==
    [brace |-> FALSE, syntaxOk |-> FALSE, hasBands |-> FALSE, bands |-> <<>>,
     hasGlobalGain |-> FALSE, globalGain |-> Num(0), lines |-> lines]

NoFile == TextFile(<<>>)

\* JSON.stringify({device, timestamp, globalGain, bands}); the device tag and
\* the timestamp are not read back by the import.
exportJson(bands, globalGain) ==
    JsonFile(TRUE, [i \in DOMAIN bands |-> stringifyBand(bands[i])],
             TRUE, stringifyNumber(globalGain))

\* result.trim().startsWith("Preamp:"): the first non-blank line.
RECURSIVE startsWithPreamp(_)
startsWithPreamp(lines) ==
    IF lines = <<>> THEN FALSE
    ELSE IF Head(lines).kw = "" THEN startsWithPreamp(Tail(lines))
    ELSE Head(lines).kw = "Preamp"

\* result.includes("Filter 1:")
includesFilter1(lines) ==
    \E i \in DOMAIN lines : lines[i].kw = "Filter" /\ lines[i].idx = "1"

\* The try block of reader.onload up to the parsed profile.
detectAndParse(file) ==
    IF file.brace THEN parseJsonProfile(file)
    ELSE IF startsWithPreamp(file.lines) \/ includesFilter1(file.lines)
    THEN parseTextProfile(file.lines)
    ELSE [err |-> "Unknown file format", globalGain |-> Num(0),
          bands |-> <<>>]

----------------------------------------------------------------------------
(* State *)

VARIABLES
    eqState,          \* fn.ts: the band sequence of the store
    globalGainState,  \* fn.ts: the global gain of the store
    device,           \* fn.ts: TRUE when a HID device is connected
    localBands,       \* peq.ts: the band array the visualizer draws
    selectedIndex,    \* peq.ts: <<>> for null, <<i>> for index i
    draggingIndex,    \* peq.ts: <<>> for null, <<i>> for index i
    drawn,            \* the bands read by the last drawCurve
    coeffs,           \* activeCoeffs of the last drawCurve
    pc,               \* position of the handler that is running, or "idle"
    syncs,            \* resetToDefaults calls suspended at await syncToDevice()
    file,             \* the file handed to the last import
    profile,          \* the ProfileData (or error) of the last parse
    exported,         \* the JSON written by the last exportProfile
    lastError,        \* the error the last handler threw or logged
    lastOp,           \* the last handler started, and what it found
    prevEq,           \* eqState when the last handler started
    prevGain,         \* globalGainState when the last handler started
    txn,              \* the wholesale replacement in progress or last done
    writes,           \* band-field assignments of the last handler, by route
    ops               \* handlers started so far

vars ==
    <<eqState, globalGainState, device, localBands, selectedIndex,
      draggingIndex, drawn, coeffs, pc, syncs, file, profile, exported,
      lastError, lastOp, prevEq, prevGain, txn, writes, ops>>

World ==
    [eq |-> eqState, gg |-> globalGainState, local |-> localBands,
     sel |-> selectedIndex, drag |-> draggingIndex, drawn |-> drawn,
     coeffs |-> coeffs, err |-> "none", api |-> 0, direct |-> 0]

Commit(w) ==
    /\ eqState' = w.eq
    /\ globalGainState' = w.gg
    /\ localBands' = w.local
    /\ selectedIndex' = w.sel
    /\ draggingIndex' = w.drag
    /\ drawn' = w.drawn
    /\ coeffs' = w.coeffs
    /\ lastError' = w.err
    /\ writes' = [api |-> w.api, direct |-> w.direct]

NoProfile == [err |-> "no profile", globalGain |-> Num(0), bands |-> <<>>]

NoTxn ==
    [active |-> FALSE, done |-> FALSE, oldEq |-> <<>>, oldGain |-> Num(0),
     newEq |-> <<>>, newGain |-> Num(0)]

\* A replacement is half applied: the bands of one side with the gain of the
\* other.
Torn ==
    /\ txn.active
    /\ txn.oldEq # txn.newEq
    /\ txn.oldGain # txn.newGain
    /\ \/ eqState = txn.newEq /\ globalGainState = txn.oldGain
       \/ eqState = txn.oldEq /\ globalGainState = txn.newGain

(* Inputs *)

\* Calls of window.updateState(index, key, value): key and value.
UpdateInputs ==
    { <<"gain", RawStr("3")>>, <<"gain", RawStr("")>>,
      <<"q", RawStr("0")>>, <<"type", RawStr("HS")>> }

\* Events of the controls of the selected band: key and value.
ControlInputs ==
    { <<"type", RawStr("LSQ")>>, <<"freq", RawNum(1000000)>>,
      <<"gain", RawStr("-2.6")>>, <<"q", RawStr("1")>>,
      <<"enabled", RawBool(FALSE)>> }

\* Pointer positions of a drag: freq and gain.
DragInputs == { <<500000, 6000>> }

GainInputs == { Num(-8000), Num(3000) }

JsonBand(index, gain) ==
    [index |-> index, freq |-> Num(1000000), gain |-> gain, q |-> Num(1000),
     type |-> "PK", enabled |-> TRUE]

JsonFiles ==
    { \* {"globalGain": 3}
      JsonFile(FALSE, <<>>, TRUE, Num(3000)),
      \* {"bands": [
      [JsonFile(TRUE, <<>>, FALSE, Num(0)) EXCEPT !.syntaxOk = FALSE],
      \* {"globalGain": 3, "bands": [{"index": 0, ...}]}
      JsonFile(TRUE, <<JsonBand(0, Num(3000))>>, TRUE, Num(3000)),
      \* {"bands": [{"index": 1, ...}, {"index": 2, ...}, ...]}
      JsonFile(TRUE, [i \in 1..NumBands |-> JsonBand(i, Num(0))], FALSE,
               Num(0)),
      \* {"globalGain": null, "bands": [{"index": 0, "gain": null, ...}, ...]}
      JsonFile(TRUE, [i \in 1..NumBands |-> JsonBand(i - 1, Null)], TRUE,
               Null) }

TextFiles ==
    { \* the profile of the specification's example
      TextFile(<<PreampLine("Preamp", "-8.0"),
                 FilterLine("Filter", 1, "ON", "PK", "34", "-2.6", "0.800")>>),
      \* Q 0 on an enabled and on a disabled band
      TextFile(<<FilterLine("Filter", 1, "ON", "PK", "34", "0", "0")>>),
      TextFile(<<FilterLine("Filter", 1, "OFF", "PK", "0", "3", "0"),
                 FilterLine("Filter", 2, "on", "LS", "34", "3", "0")>>),
      \* a lower-case Preamp keyword and no line for filter 1
      TextFile(<<PreampLine("preamp", "3"),
                 FilterLine("Filter", 2, "ON", "PK", "34", "3", "1")>>),
      \* neither JSON nor a text profile
      TextFile(<<OtherLine>>) }

ImportFiles == JsonFiles \cup TextFiles

----------------------------------------------------------------------------
(* Handlers.  JavaScript runs one handler at a time: a handler starts only  *)
(* when no other is running.  importProfile's onload handler and            *)
(* resetToDefaults are split at their two store writes, so that the state   *)
(* between the writes is a state of the model; neither has an await between *)
(* them (the one await, of syncToDevice, follows both).                     *)

\* State after the modules are loaded (fn.ts:16-18, peq.ts:17-20).
Init ==
    /\ eqState = defaultEqState
    /\ globalGainState = Num(0)
    /\ device = FALSE
    /\ localBands = <<>>
    /\ selectedIndex = <<>>
    /\ draggingIndex = <<>>
    /\ drawn = <<>>
    /\ coeffs = <<>>
    /\ pc = "start"
    /\ syncs = 0
    /\ file = NoFile
    /\ profile = NoProfile
    /\ exported = NoFile
    /\ lastError = "none"
    /\ lastOp = [op |-> "load", index |-> 0, key |-> "", oob |-> FALSE,
                 torn |-> FALSE]
    /\ prevEq = defaultEqState
    /\ prevGain = Num(0)
    /\ txn = NoTxn
    /\ writes = [api |-> 0, direct |-> 0]
    /\ ops = 0

\* A handler may start between the two store writes of a replacement, as it
\* could if an await stood between them.
HandlerMayStart_preempt ==
    pc \in {"idle", "import_setGlobalGainState", "reset_setGlobalGain"}

\* The event loop may start a handler: no handler is in the middle of its
\* synchronous run.
HandlerMayStart == pc = "idle"

\* A handler starts: it is counted, and what it finds is remembered.
Began(op, index, key) ==
    /\ HandlerMayStart
    /\ ops < MaxOps
    /\ ops' = ops + 1
    /\ lastOp' = [op |-> op, index |-> index, key |-> key,
                  oob |-> ~InRange(eqState, index), torn |-> Torn]
    /\ prevEq' = eqState
    /\ prevGain' = globalGainState

initState ==
    /\ pc = "start"
    /\ pc' = "idle"
    /\ Commit(renderUI(World, eqState))
    /\ UNCHANGED <<device, syncs, file, profile, exported, lastOp, prevEq,
                   prevGain, txn, ops>>

\* window.updateState(index, key, value)
UpdateState(index, key, raw) ==
    /\ Began("updateState", index, key)
    /\ Commit(updateState(World, index, key, raw))
    /\ UNCHANGED <<device, pc, syncs, file, profile, exported, txn>>

\* An input/change event of a control of the selected band (peq.ts:495-517).
ControlInput(key, raw) ==
    /\ selectedIndex # <<>>
    /\ Began("handleUpdate", selectedIndex[1], key)
    /\ Commit(handleUpdate(World, selectedIndex[1], key, raw))
    /\ UNCHANGED <<device, pc, syncs, file, profile, exported, txn>>

\* A click on the list entry of the band at position pos (peq.ts:340).
ListClick(pos) ==
    /\ pos \in DOMAIN localBands
    /\ Began("selectBand", localBands[pos].index, "")
    /\ Commit(selectBand(World, localBands[pos].index))
    /\ UNCHANGED <<device, pc, syncs, file, profile, exported, txn>>

\* mousedown within reach of the handle of the band at position pos
\* (peq.ts:442-471).
MouseDown(pos) ==
    /\ pos \in DOMAIN localBands
    /\ Began("mousedown", localBands[pos].index, "")
    /\ Commit(selectBand([World EXCEPT !.drag = <<localBands[pos].index>>],
                         localBands[pos].index))
    /\ UNCHANGED <<device, pc, syncs, file, profile, exported, txn>>

\* mousemove during a drag (peq.ts:473-488): two updates, the second only if
\* the first did not throw.
MouseMove(freq, gain) ==
    /\ draggingIndex # <<>>
    /\ Began("mousemove", draggingIndex[1], "freq")
    /\ LET w1 == handleUpdate(World, draggingIndex[1], "freq", RawNum(freq))
       IN  Commit(IF w1.err # "none" THEN w1
                  ELSE handleUpdate(w1, draggingIndex[1], "gain",
                                    RawNum(gain)))
    /\ UNCHANGED <<device, pc, syncs, file, profile, exported, txn>>

MouseUp ==
    /\ draggingIndex # <<>>
    /\ Began("mouseup", 0, "")
    /\ Commit([World EXCEPT !.drag = <<>>])
    /\ UNCHANGED <<device, pc, syncs, file, profile, exported, txn>>

\* setGlobalGain(gain); updateGlobalGainUI only shows the value.
SetGlobalGain(gain) ==
    /\ Began("setGlobalGain", 0, "")
    /\ Commit([World EXCEPT !.gg = gain])
    /\ UNCHANGED <<device, pc, syncs, file, profile, exported, txn>>

\* connectToDevice: the user picks a device or none.
ConnectToDevice(picked) ==
    /\ Began("connectToDevice", 0, "")
    /\ device' = (device \/ picked)
    /\ Commit(World)
    /\ UNCHANGED <<pc, syncs, file, profile, exported, txn>>

ExportProfile ==
    /\ Began("exportProfile", 0, "")
    /\ exported' = IF device THEN exportJson(eqState, globalGainState)
                   ELSE exported
    /\ Commit(World)
    /\ UNCHANGED <<device, pc, syncs, file, profile, txn>>

\* reader.onload up to setEqState(profile.bands); a throw of the parse is
\* caught and logged.
ImportProfile(f) ==
    /\ Began("importProfile", 0, "")
    /\ file' = f
    /\ profile' = detectAndParse(f)
    /\ IF profile'.err # "none"
       THEN /\ Commit([World EXCEPT !.err = profile'.err])
            /\ UNCHANGED <<pc, txn>>
       ELSE /\ Commit([World EXCEPT !.eq = profile'.bands])
            /\ pc' = "import_setGlobalGainState"
            /\ txn' = [active |-> TRUE, done |-> FALSE, oldEq |-> eqState,
                       oldGain |-> globalGainState,
                       newEq |-> profile'.bands,
                       newGain |-> profile'.globalGain]
    /\ UNCHANGED <<device, syncs, exported>>

\* setGlobalGainState(profile.globalGain); updateGlobalGain(...);
\* renderUI(profile.bands); a throw of the render is caught and logged.
ImportCommit ==
    /\ pc = "import_setGlobalGainState"
    /\ pc' = "idle"
    /\ Commit(renderUI([World EXCEPT !.gg = profile.globalGain],
                       profile.bands))
    /\ txn' = [txn EXCEPT !.active = FALSE, !.done = TRUE]
    /\ UNCHANGED <<device, syncs, file, profile, exported, lastOp, prevEq,
                   prevGain, ops>>

\* resetToDefaults up to eqState = defaultEqState(); confirmed is the answer
\* to confirm().
ResetToDefaults(confirmed) ==
    /\ Began("resetToDefaults", 0, IF confirmed THEN "confirmed" ELSE "")
    /\ IF confirmed
       THEN /\ Commit([World EXCEPT !.eq = defaultEqState])
            /\ pc' = "reset_setGlobalGain"
            /\ txn' = [active |-> TRUE, done |-> FALSE, oldEq |-> eqState,
                       oldGain |-> globalGainState,
                       newEq |-> defaultEqState, newGain |-> Num(0)]
       ELSE /\ Commit(World)
            /\ UNCHANGED <<pc, txn>>
    /\ UNCHANGED <<device, syncs, file, profile, exported>>

\* The second half of resetToDefaults without setGlobalGain(0).
ResetCommit_keepGain ==
    /\ pc = "reset_setGlobalGain"
    /\ pc' = "idle"
    /\ Commit(renderUI(World, eqState))
    /\ syncs' = IF lastError' = "none" THEN syncs + 1 ELSE syncs
    /\ txn' = [txn EXCEPT !.active = FALSE, !.done = TRUE]
    /\ UNCHANGED <<device, file, profile, exported, lastOp, prevEq, prevGain,
                   ops>>

\* setGlobalGain(0); renderUI(eqState); then the call suspends at
\* await syncToDevice().
ResetCommit ==
    /\ pc = "reset_setGlobalGain"
    /\ pc' = "idle"
    /\ Commit(renderUI([World EXCEPT !.gg = Num(0)], eqState))
    /\ syncs' = IF lastError' = "none" THEN syncs + 1 ELSE syncs
    /\ txn' = [txn EXCEPT !.active = FALSE, !.done = TRUE]
    /\ UNCHANGED <<device, file, profile, exported, lastOp, prevEq, prevGain,
                   ops>>

\* syncToDevice() resolves; resetToDefaults logs and returns.
SyncDone ==
    /\ pc = "idle"
    /\ syncs > 0
    /\ syncs' = syncs - 1
    /\ UNCHANGED <<eqState, globalGainState, device, localBands,
                   selectedIndex, draggingIndex, drawn, coeffs, pc, file,
                   profile, exported, lastError, lastOp, prevEq, prevGain,
                   txn, writes, ops>>

Next ==
    \/ initState
    \/ \E index \in -1..NumBands, in \in UpdateInputs :
          UpdateState(index, in[1], in[2])
    \/ \E in \in ControlInputs : ControlInput(in[1], in[2])
    \/ \E pos \in 1..(NumBands + 1) : ListClick(pos)
    \/ \E pos \in 1..(NumBands + 1) : MouseDown(pos)
    \/ \E in \in DragInputs : MouseMove(in[1], in[2])
    \/ MouseUp
    \/ \E gain \in GainInputs : SetGlobalGain(gain)
    \/ \E picked \in BOOLEAN : ConnectToDevice(picked)
    \/ ExportProfile
    \/ \E f \in ImportFiles : ImportProfile(f)
    \/ ImportCommit
    \/ \E confirmed \in BOOLEAN : ResetToDefaults(confirmed)
    \/ ResetCommit
    \/ SyncDone

Spec == Init /\ [][Next]_vars

----------------------------------------------------------------------------
(* The text parser on its own: parseTextProfile applied to every text of at *)
(* most MaxLines lines over TextLines.                                      *)

TextLines ==
    { BlankLine, OtherLine,
      PreampLine("Preamp", "-8.0"), PreampLine("preamp", "3"),
      PreampLine("Preamp", "abc"),
      FilterLine("Filter", 1, "ON", "PK", "34", "-2.6", "0.800"),
      FilterLine("filter", 1, "off", "LS", "1", "3", "0"),
      FilterLine("Filter", NumBands, "On", "pk", "0", "0", "1"),
      FilterLine("Filter", 0, "ON", "PK", "34", "3", "1"),
      FilterLine("Filter", NumBands + 1, "ON", "PK", "34", "3", "1") }

TextInputs ==
    UNION { {TextFile(lines) : lines \in [1..n -> TextLines]} : n \in 0..MaxLines }

InitText ==
    /\ eqState = defaultEqState
    /\ globalGainState = Num(0)
    /\ device = FALSE
    /\ localBands = <<>>
    /\ selectedIndex = <<>>
    /\ draggingIndex = <<>>
    /\ drawn = <<>>
    /\ coeffs = <<>>
    /\ pc = "text"
    /\ syncs = 0
    /\ file \in TextInputs
    /\ profile = NoProfile
    /\ exported = NoFile
    /\ lastError = "none"
    /\ lastOp = [op |-> "load", index |-> 0, key |-> "", oob |-> FALSE,
                 torn |-> FALSE]
    /\ prevEq = defaultEqState
    /\ prevGain = Num(0)
    /\ txn = NoTxn
    /\ writes = [api |-> 0, direct |-> 0]
    /\ ops = 0

ParseText ==
    /\ pc = "text"
    /\ pc' = "parsed"
    /\ profile' = parseTextProfile(file.lines)
    /\ UNCHANGED <<eqState, globalGainState, device, localBands,
                   selectedIndex, draggingIndex, drawn, coeffs, syncs, file,
                   exported, lastError, lastOp, prevEq, prevGain, txn,
                   writes, ops>>

NextText == ParseText

SpecText == InitText /\ [][NextText]_vars

----------------------------------------------------------------------------
(* Properties *)

\* The canonical band at position n (1-based) of the default set.
CanonicalBand(n) ==
    [index |-> n - 1, freq |-> Num(DefaultFreq(n)), gain |-> Num(0),
     q |-> Num(750), type |-> "PK", enabled |-> TRUE]

StoreUntouched == eqState = prevEq /\ globalGainState = prevGain

EditOps == {"updateState", "handleUpdate", "mousemove"}

\* C1: an update (updateState called directly, or emitted by the controls or
\* a drag for the selected/dragged index) whose index is outside the band
\* sequence raises no error and leaves the bands and the global gain as they
\* were.
OutOfRangeUpdateIsNoOp ==
    (lastOp.op \in EditOps /\ lastOp.oob) =>
        (lastError = "none" /\ StoreUntouched)

\* The file is one the import must reject at the parse: JSON that does not
\* parse or has no bands member, or text no line of which matches a rule of
\* the grammar.
ParseFailure(f) ==
    \/ f.brace /\ (~f.syntaxOk \/ ~f.hasBands)
    \/ ~f.brace /\ \A i \in DOMAIN f.lines :
                      ~preampRegex(f.lines[i]) /\ ~filterRegex(f.lines[i])

JsonRoundTrip ==
    (lastOp.op = "exportProfile" /\ device) =>
        parseJsonProfile(exported) =
            [err |-> "none", globalGain |-> globalGainState,
             bands |-> eqState]

\* Positions of the lines of the parsed text that are Filter lines for band
\* n (1-based), and of those that are Preamp lines.
FilterLinesFor(n) ==
    {i \in DOMAIN file.lines :
        filterRegex(file.lines[i]) /\ file.lines[i].idx = ToString(n)}

PreampLines == {i \in DOMAIN file.lines : preampRegex(file.lines[i])}

Last(S) == CHOOSE i \in S : \A j \in S : j <= i

\* The band a Filter line for band n describes.
BandOfLine(line, n) ==
    [index |-> n - 1, freq |-> Num(DecimalValue(line.fc)),
     gain |-> Num(DecimalValue(line.gain)), q |-> Num(DecimalValue(line.q)),
     type |-> line.tag, enabled |-> (line.state \in {"ON", "On", "on"})]

\* C4 as stated: the parsed profile has the default length; for every Filter
\* n line in range, band n-1 has exactly that line's fields; a band no
\* Filter line names is the default; the global gain is the value of every
\* Preamp line, and 0 when there is none.
TextMergeEveryLine ==
    pc = "parsed" =>
        /\ Len(profile.bands) = NumBands
        /\ \A n \in 1..NumBands :
              /\ \A i \in FilterLinesFor(n) :
                    profile.bands[n] = BandOfLine(file.lines[i], n)
              /\ FilterLinesFor(n) = {} => profile.bands[n] = CanonicalBand(n)
        /\ \A i \in PreampLines :
              profile.globalGain = Num(DecimalValue(file.lines[i].val))
        /\ PreampLines = {} => profile.globalGain = Num(0)

\* C4 amended: as above, with the last Filter n line in file order giving the
\* fields of band n-1 when several name it, and the last Preamp line giving
\* the global gain.
TextMergeLastLine ==
    pc = "parsed" =>
        /\ Len(profile.bands) = NumBands
        /\ \A n \in 1..NumBands :
              profile.bands[n] =
                  IF FilterLinesFor(n) = {} THEN CanonicalBand(n)
                  ELSE BandOfLine(file.lines[Last(FilterLinesFor(n))], n)
        /\ profile.globalGain =
              IF PreampLines = {} THEN Num(0)
              ELSE Num(DecimalValue(file.lines[Last(PreampLines)].val))

TextMergeWitness ==
    /\ pc = "parsed"
    /\ Cardinality(FilterLinesFor(1)) = 2
    /\ file.lines[Last(FilterLinesFor(1))].state = "off"
    /\ profile.bands[1].enabled = FALSE
    /\ PreampLines # {}
    /\ \E n \in 1..NumBands : FilterLinesFor(n) = {}

\* C5: a confirmed resetToDefaults leaves the canonical band set (default
\* frequency table, gain 0, q 0.75, type PK, enabled, index = position) and
\* global gain 0, whatever the state it started from; so a second reset
\* leaves what the first left.
ResetIsCanonical ==
    (lastOp.op = "resetToDefaults" /\ lastOp.key = "confirmed" /\ pc = "idle")
        => /\ eqState = [n \in 1..NumBands |-> CanonicalBand(n)]
           /\ globalGainState = Num(0)
           /\ localBands = eqState

ResetWitness ==
    /\ lastOp.op = "resetToDefaults"
    /\ lastOp.key = "confirmed"
    /\ pc = "idle"
    /\ Len(prevEq) # NumBands
    /\ prevGain # Num(0)

\* C6: band[i].index = i at every position of the store's sequence, whenever
\* no handler is running.
PositionalIdentity ==
    pc = "idle" => \A i \in DOMAIN eqState : eqState[i].index = i - 1

\* C7: the store's sequence always has the length of the default-frequency
\* table.
FixedLength == Len(eqState) = Len(DEFAULT_FREQS)

\* C8: the coefficients drawCurve derives for a disabled band, and for an
\* enabled band whose type is none of PK, LSQ, HSQ, are exactly
\* {b0: 1, b1: 0, b2: 0, a1: 0, a2: 0}, whatever freq, gain and q are.
IdentityForBypassed ==
    /\ Len(coeffs) = Len(drawn)
    /\ \A i \in DOMAIN drawn :
          (~drawn[i].enabled \/ drawn[i].type \notin {"PK", "LSQ", "HSQ"}) =>
              coeffs[i] = [b0 |-> Num(1000), b1 |-> Num(0), b2 |-> Num(0),
                           a1 |-> Num(0), a2 |-> Num(0)]

IdentityWitness ==
    /\ \E i \in DOMAIN drawn :
          ~drawn[i].enabled /\ drawn[i].type = "PK" /\ drawn[i].q = Num(0)
    /\ \E i \in DOMAIN drawn :
          drawn[i].enabled /\ drawn[i].type = "LS" /\ drawn[i].q = Num(0)

\* C9: every enabled band of a recognized type for which drawCurve derives
\* coefficients has q > 0 and freq > 0.
GuardedInputs ==
    \A i \in DOMAIN drawn :
        (drawn[i].enabled /\ drawn[i].type \in {"PK", "LSQ", "HSQ"}) =>
            /\ drawn[i].q.t = "num" /\ drawn[i].q.v > 0
            /\ drawn[i].freq.t = "num" /\ drawn[i].freq.v > 0

\* C10: no handler starts, and none can start, while the store holds the
\* bands of one side of a replacement (import or reset) with the global gain
\* of the other.
AtomicReplace == ~lastOp.torn /\ (HandlerMayStart => ~Torn)

AtomicWitness ==
    /\ txn.done
    /\ txn.oldEq # txn.newEq
    /\ txn.oldGain # txn.newGain
    /\ lastOp.op \in {"exportProfile", "updateState"}
    /\ ~lastOp.torn

\* C11: when the text has several Preamp lines, the global gain of the
\* parsed profile is the value of the last of them in file order, whatever
\* lines stand between them.
LastPreampWins ==
    (pc = "parsed" /\ Cardinality(PreampLines) >= 2) =>
        \E i \in PreampLines :
            /\ \A j \in PreampLines : j <= i
            /\ profile.globalGain = Num(DecimalValue(file.lines[i].val))

LastPreampWitness ==
    /\ pc = "parsed"
    /\ Len(file.lines) = 3
    /\ PreampLines = {1, 3}
    /\ filterRegex(file.lines[2])
    /\ file.lines[1].val = "-8.0"
    /\ file.lines[3].val = "3"
    /\ profile.globalGain = Num(3000)

\* The text without its line at position i.
RemoveAt(lines, i) ==
    [j \in 1..(Len(lines) - 1) |-> IF j < i THEN lines[j] ELSE lines[j + 1]]

\* A line the grammar gives no effect: blank, matching neither rule, or a
\* Filter line whose 1-based index is 0 or beyond the sequence.
LineWithoutEffect(line) ==
    \/ line.kw = ""
    \/ ~preampRegex(line) /\ ~filterRegex(line)
    \/ /\ filterRegex(line)
       /\ \A n \in 1..NumBands : line.idx # ToString(n)

\* C12: a blank line, a line matching neither rule and a Filter line with
\* index 0 or beyond the sequence raise no error, and the parsed profile is
\* the one parsed from the text with that line removed.
IgnoredLinesHaveNoEffect ==
    pc = "parsed" =>
        /\ profile.err = "none"
        /\ \A i \in DOMAIN file.lines :
              LineWithoutEffect(file.lines[i]) =>
                  profile = parseTextProfile(RemoveAt(file.lines, i))

IgnoredLinesWitness ==
    /\ pc = "parsed"
    /\ Len(file.lines) = 3
    /\ \E i, j, k \in DOMAIN file.lines :
          /\ file.lines[i].kw = ""
          /\ filterRegex(file.lines[j])
          /\ file.lines[j].idx = ToString(NumBands + 1)
          /\ FilterLinesFor(1) = {k}
    /\ profile.bands[1] # CanonicalBand(1)

\* C13: no handler assigns a field of a band of the store through a
\* reference held outside fn.ts (the array got from getEqState or handed to
\* renderPEQ), and an edit made with the controls is applied to the store
\* exactly once.
EditsOnlyThroughStoreApi ==
    /\ writes.direct = 0
    /\ (lastOp.op = "handleUpdate" /\ lastError = "none") =>
          writes.api + writes.direct = 1

\* C14: an imported file that is not JSON and has at least one line matching
\* the Preamp rule or the Filter rule is parsed as a text profile, never
\* rejected as of unknown format, and once the import has run the store
\* holds the parsed bands and global gain.
TextGrammarAccepted ==
    (/\ lastOp.op = "importProfile"
     /\ ~file.brace
     /\ \E i \in DOMAIN file.lines :
           preampRegex(file.lines[i]) \/ filterRegex(file.lines[i])) =>
        /\ lastError # "Unknown file format"
        /\ profile = parseTextProfile(file.lines)
        /\ pc = "idle" =>
              /\ eqState = profile.bands
              /\ globalGainState = profile.globalGain

BandFields == {"index", "freq", "gain", "q", "type", "enabled"}

\* C15: updateState(index, key, value) with an index inside the sequence
\* changes at most field key of band[index]: the other fields of that band,
\* the other bands, the length of the sequence and the global gain are as
\* before; and setGlobalGain changes no band.
BandEditFrame ==
    /\ (lastOp.op = "updateState" /\ ~lastOp.oob) =>
          /\ Len(eqState) = Len(prevEq)
          /\ globalGainState = prevGain
          /\ \A i \in DOMAIN eqState :
                i # lastOp.index + 1 => eqState[i] = prevEq[i]
          /\ \A k \in BandFields \ {lastOp.key} :
                eqState[lastOp.index + 1][k] = prevEq[lastOp.index + 1][k]
    /\ lastOp.op = "setGlobalGain" => eqState = prevEq

BandEditWitness ==
    /\ lastOp.op = "updateState"
    /\ ~lastOp.oob
    /\ eqState[lastOp.index + 1] # prevEq[lastOp.index + 1]
    /\ prevGain # Num(0)
    /\ \E i \in DOMAIN eqState :
          i # lastOp.index + 1 /\ eqState[i] # defaultEqState[i]

====
